---- MODULE Spec2Model ----
(***************************************************************************)
(* A model of the EspoCRM frontend bundler: Bundler (chunk resolution:     *)
(* module index, dependency closure, tree walk, depth sort, path           *)
(* resolution) and BundlerGeneral (the multi-chunk orchestrator).          *)
(*                                                                         *)
(* A module id is the sequence of its '!'-separated segments:              *)
(*   <<"a">> is 'a',  <<"lib", "jq">> is 'lib!jq',  <<"text", "jq">> is    *)
(*   'text!jq'.  A file is <<dir, stem, ext>>.                             *)
(***************************************************************************)
EXTENDS Integers, Sequences, FiniteSets, TLC

VARIABLES
    tree,             \* the source tree: file -> declared deps, or NotModule
    call,             \* BundlerSpec: the parameters and the outcome of Bundler.bundle calls
    config,           \* BundlerGeneral.config (chunks; order is Order)
    mainBundleFiles,  \* BundlerGeneral.mainBundleFiles
    run,              \* the locals of the running BundlerGeneral.bundle() call
    history           \* what each finished bundle() call produced

vars == <<tree, call, config, mainBundleFiles, run, history>>

-----------------------------------------------------------------------------
(* Bounds *)

\* The longest dependency list a module of the bounded source tree declares.
MaxDeps == 2

\* How many times bundle() is called on one BundlerGeneral instance.
MaxRuns == 2

\* How many frames of #obtainAllDeps or #buildTreeItem the call stack holds
\* before the engine gives up (RangeError: Maximum call stack size exceeded).
\* It is larger than the longest path without a repeated id in the bounded
\* trees, so that only a recursion that re-enters an id can exhaust it.
MaxStack == 5

-----------------------------------------------------------------------------
(* Sequences as JavaScript arrays *)

Range(s) == {s[i] : i \in 1..Len(s)}

Includes(s, x) == x \in Range(s)

\* list.concat(items.filter(item => !list.includes(item))): the filter is
\* evaluated on the list as it is before anything is pushed.
PushMissing(list, items) == list \o SelectSeq(items, LAMBDA it : ~Includes(list, it))

\* Sequences without repetition over S of length at most n.
RECURSIVE SeqsUpTo(_, _)
SeqsUpTo(S, n) ==
    IF n = 0 THEN {<<>>}
    ELSE LET shorter == SeqsUpTo(S, n - 1)
         IN shorter \cup {e \in {Append(s, x) : s \in shorter, x \in S} :
                              \A i, j \in 1..Len(e) : i # j => e[i] # e[j]}

-----------------------------------------------------------------------------
(* Ids and files *)

None == <<>>
Some(v) == <<v>>

File(stem) == <<"client/src/", stem, ".js">>

\* id.includes('!')
IncludesBang(id) == Len(id) > 1

\* Mutant of StripLib: every plugin prefix is stripped.
StripAnyPlugin(id) == <<id[Len(id)]>>

\* depName.startsWith('lib!') ? depName.slice(4) : depName
StripLib(id) == IF Len(id) > 1 /\ id[1] = "lib" THEN Tail(id) ELSE id

\* Bundler.#obtainModuleName, with no modPaths: file.slice(srcPath.length, -3)
ObtainModuleName(file) == <<file[2]>>

NotModule == [module |-> FALSE, deps |-> <<>>]

\* Bundler.#obtainModuleData: null, or {name, deps}
ObtainModuleData(t, file) ==
    IF t[file].module
    THEN Some([name |-> ObtainModuleName(file), deps |-> t[file].deps])
    ELSE None

-----------------------------------------------------------------------------
(* Bundler: chunk resolution *)

\* map[name] || []
DepsOf(map, name) == IF name \in DOMAIN map THEN map[name] ELSE <<>>

\* Bundler.#obtainAllDeps: the closure of one module, depth first, in
\* discovery order.  A known name is not pushed again; every non-plugin
\* name is descended into.
RECURSIVE ObtainAllDepsEach(_, _, _, _)
ObtainAllDepsEach(deps, i, map, list) ==
    IF i > Len(deps) THEN list
    ELSE LET depName == deps[i]
             pushed == IF ~Includes(list, depName) THEN Append(list, depName) ELSE list
             walked == IF IncludesBang(depName) THEN pushed
                       ELSE ObtainAllDepsEach(DepsOf(map, depName), 1, map, pushed)
         IN ObtainAllDepsEach(deps, i + 1, map, walked)

\* Mutant of ObtainAllDeps: the direct dependencies only.
ObtainAllDepsDirect(name, map, list) == PushMissing(list, DepsOf(map, name))

ObtainAllDeps(name, map, list) == ObtainAllDepsEach(DepsOf(map, name), 1, map, list)

\* Mutant of IsLib: the 'lib!' prefix is not stripped.
IsLibNoStrip(depName, ignoreLibs) == Includes(ignoreLibs, depName)

\* isLib of #buildTreeItem
IsLib(depName, ignoreLibs) == Includes(ignoreLibs, StripLib(depName))

\* isDependentOnMatched of #buildTreeItem
IsDependentOnMatched(depName, dependentOn) ==
    IF dependentOn = None THEN FALSE
    ELSE Includes(dependentOn[1], StripLib(depName))

\* Mutant of RaiseDepth: the depth of the first visit is kept.
RaiseDepthFirstVisit(depthMap, module, depth) ==
    IF module \notin DOMAIN depthMap THEN depthMap @@ (module :> depth) ELSE depthMap

\* #buildTreeItem: the depth update at its entry.
RaiseDepth(depthMap, module, depth) ==
    IF module \notin DOMAIN depthMap THEN depthMap @@ (module :> depth)
    ELSE IF depth > depthMap[module] THEN [depthMap EXCEPT ![module] = depth]
    ELSE depthMap

\* Mutant of ScanDeps: a lib dependency discards the module, not its path.
RECURSIVE ScanDepsDiscardSelf(_, _, _, _, _, _)
ScanDepsDiscardSelf(deps, i, path, ignoreLibs, dependentOn, st) ==
    IF i > Len(deps) THEN [st |-> st, returned |-> FALSE]
    ELSE IF IsLib(deps[i], ignoreLibs)
    THEN [st |-> [st EXCEPT !.discardedModules = PushMissing(@, <<path[Len(path)]>>)],
          returned |-> TRUE]
    ELSE IF IsDependentOnMatched(deps[i], dependentOn)
    THEN ScanDepsDiscardSelf(deps, i + 1, path, ignoreLibs, dependentOn,
                             [st EXCEPT !.pickedModules = PushMissing(@, path)])
    ELSE ScanDepsDiscardSelf(deps, i + 1, path, ignoreLibs, dependentOn, st)

\* #buildTreeItem: the first loop over deps.  A lib dependency discards the
\* path and ends the walk of this module; a dependentOn match picks the path.
RECURSIVE ScanDeps(_, _, _, _, _, _)
ScanDeps(deps, i, path, ignoreLibs, dependentOn, st) ==
    IF i > Len(deps) THEN [st |-> st, returned |-> FALSE]
    ELSE IF IsLib(deps[i], ignoreLibs)
    THEN [st |-> [st EXCEPT !.discardedModules = PushMissing(@, path)], returned |-> TRUE]
    ELSE IF IsDependentOnMatched(deps[i], dependentOn)
    THEN ScanDeps(deps, i + 1, path, ignoreLibs, dependentOn,
                  [st EXCEPT !.pickedModules = PushMissing(@, path)])
    ELSE ScanDeps(deps, i + 1, path, ignoreLibs, dependentOn, st)

\* #buildTreeItem, and its second loop (DescendDeps) that walks every
\* dependency one level deeper with the path extended.
RECURSIVE BuildTreeItem(_, _, _, _, _, _, _)
RECURSIVE DescendDeps(_, _, _, _, _, _, _, _)
DescendDeps(deps, i, map, ignoreLibs, dependentOn, st, depth, path) ==
    IF i > Len(deps) THEN st
    ELSE DescendDeps(deps, i + 1, map, ignoreLibs, dependentOn,
                     IF IsLib(deps[i], ignoreLibs) THEN st
                     ELSE BuildTreeItem(deps[i], map, ignoreLibs, dependentOn, st, depth + 1, path),
                     depth, path)

BuildTreeItem(module, map, ignoreLibs, dependentOn, st, depth, parentPath) ==
    LET deps == DepsOf(map, module)
        path == Append(parentPath, module)
        st1 == [st EXCEPT !.depthMap = RaiseDepth(@, module, depth)]
    IN IF Len(deps) = 0 THEN st1
       ELSE LET scan == ScanDeps(deps, 1, path, ignoreLibs, dependentOn, st1)
            IN IF scan.returned THEN scan.st
               ELSE DescendDeps(deps, 1, map, ignoreLibs, dependentOn, scan.st, depth, path)

\* #sortFiles: the loop that walks every module of the working list as a root.
RECURSIVE WalkModules(_, _, _, _, _, _)
WalkModules(modules, i, map, ignoreLibs, dependentOn, st) ==
    IF i > Len(modules) THEN st
    ELSE WalkModules(modules, i + 1, map, ignoreLibs, dependentOn,
                     BuildTreeItem(modules[i], map, ignoreLibs, dependentOn, st, 0, <<>>))

\* modules.sort((v1, v2) => depthMap[v2] - depthMap[v1]): stable, descending.
RECURSIVE SortByDepth(_, _)
SortByDepth(modules, depthMap) ==
    IF Len(modules) = 0 THEN <<>>
    ELSE LET last == modules[Len(modules)]
             front == SortByDepth(SubSeq(modules, 1, Len(modules) - 1), depthMap)
         IN SelectSeq(front, LAMBDA m : depthMap[m] >= depthMap[last])
            \o <<last>>
            \o SelectSeq(front, LAMBDA m : depthMap[m] < depthMap[last])

\* #sortFiles: the closure of the target modules, as (all, non-plugin).
RECURSIVE CollectDeps(_, _, _, _)
CollectDeps(modules, i, map, acc) ==
    IF i > Len(modules) THEN acc
    ELSE LET deps == ObtainAllDeps(modules[i], map, <<>>)
             outside == SelectSeq(deps, LAMBDA it : ~Includes(modules, it))
             plain == SelectSeq(outside, LAMBDA it : ~IncludesBang(it))
         IN CollectDeps(modules, i + 1, map,
                        [allDepModules |-> PushMissing(acc.allDepModules, outside),
                         depModules |-> PushMissing(acc.depModules, plain)])

\* Mutant of ResolvePath: a name without a file is dropped, never thrown.
ResolvePathNeverThrows(name, moduleFileMap, mapDependencies, libs) ==
    IF name \in DOMAIN moduleFileMap THEN [path |-> Some(moduleFileMap[name]), error |-> None]
    ELSE [path |-> None, error |-> None]

\* #sortFiles: a module name to its path, null, or the thrown error.
ResolvePath(name, moduleFileMap, mapDependencies, libs) ==
    IF name \notin DOMAIN moduleFileMap /\ mapDependencies THEN [path |-> None, error |-> None]
    ELSE IF name \in DOMAIN moduleFileMap THEN [path |-> Some(moduleFileMap[name]), error |-> None]
    ELSE IF \E k \in 1..Len(libs) : libs[k].amdId # None /\ libs[k].amdId = Some(name)
    THEN [path |-> None, error |-> None]
    ELSE [path |-> None, error |-> Some(name)]

\* modules.map(...) of #sortFiles followed by the filter of nulls; the
\* first name that cannot be resolved throws.
RECURSIVE ResolvePaths(_, _, _, _, _, _)
ResolvePaths(modules, i, moduleFileMap, mapDependencies, libs, paths) ==
    IF i > Len(modules) THEN [paths |-> paths, error |-> None]
    ELSE LET r == ResolvePath(modules[i], moduleFileMap, mapDependencies, libs)
         IN IF r.error # None THEN [paths |-> <<>>, error |-> r.error]
            ELSE ResolvePaths(modules, i + 1, moduleFileMap, mapDependencies, libs, paths \o r.path)

\* #sortFiles: the union of the immediate dependencies of the final modules.
RECURSIVE DirectDeps(_, _, _, _)
DirectDeps(modules, i, map, directDepModules) ==
    IF i > Len(modules) THEN directDepModules
    ELSE DirectDeps(modules, i + 1, map, PushMissing(directDepModules, DepsOf(map, modules[i])))

\* The last file of the lookup scope that declares module `name`
\* (moduleFileMap[data.name] = file, later files overwrite).
FileOfModule(t, allFiles, name) ==
    LET idx == {k \in 1..Len(allFiles) :
                   /\ ObtainModuleData(t, allFiles[k]) # None
                   /\ ObtainModuleData(t, allFiles[k])[1].name = name}
    IN allFiles[CHOOSE k \in idx : \A j \in idx : j <= k]

EmptyWalk == [depthMap |-> <<>>, discardedModules |-> <<>>, pickedModules |-> <<>>]

\* Mutant of SelectModules: dependentOn does not narrow the list.
SelectModulesWorking(working, pickedModules, dependentOn) == working

\* Which list #sortFiles goes on with after the walk.
SelectModules(working, pickedModules, dependentOn) ==
    IF dependentOn # None THEN pickedModules ELSE working

\* Mutant of WorkingModules: the closure is left out.
WorkingModulesTargets(targetModules, depModules, ignoreModules) ==
    SelectSeq(targetModules, LAMBDA m : ~Includes(ignoreModules, m))

\* The working list: targets and their non-plugin closure, less the ignored.
WorkingModules(targetModules, depModules, ignoreModules) ==
    SelectSeq(targetModules \o depModules, LAMBDA m : ~Includes(ignoreModules, m))

\* Bundler.#sortFiles.  `modules` is the list at the end of the method (the
\* final module set); working, depthMap and pickedModules are its locals.
SortFiles(t, files, allFiles, ignoreLibs, ignoreFiles, dependentOn, mapDependencies, libs) ==
    LET ignoreModules == [k \in 1..Len(ignoreFiles) |-> ObtainModuleName(ignoreFiles[k])]
        moduleFiles == SelectSeq(allFiles, LAMBDA f : ObtainModuleData(t, f) # None)
        names == {ObtainModuleData(t, f)[1].name : f \in Range(moduleFiles)}
        moduleDepsMap == [n \in names |-> ObtainModuleData(t, FileOfModule(t, allFiles, n))[1].deps]
        moduleFileMap == [n \in names |-> FileOfModule(t, allFiles, n)]
        standalonePathList ==
            SelectSeq(allFiles, LAMBDA f : ObtainModuleData(t, f) = None /\ Includes(files, f))
        targetFiles == SelectSeq(moduleFiles, LAMBDA f : Includes(files, f))
        targetModules == [k \in 1..Len(targetFiles) |-> ObtainModuleData(t, targetFiles[k])[1].name]
        closure == CollectDeps(targetModules, 1, moduleDepsMap,
                               [allDepModules |-> <<>>, depModules |-> <<>>])
        working == WorkingModules(targetModules, closure.depModules, ignoreModules)
        st == WalkModules(working, 1, moduleDepsMap, ignoreLibs, dependentOn, EmptyWalk)
        sorted == SortByDepth(SelectModules(working, st.pickedModules, dependentOn), st.depthMap)
        modules == SelectSeq(sorted, LAMBDA m : ~Includes(st.discardedModules, m))
        resolved == ResolvePaths(modules, 1, moduleFileMap, mapDependencies, libs, <<>>)
    IN [files |-> standalonePathList \o resolved.paths,
        depModules |-> closure.allDepModules,
        directDepModules |-> DirectDeps(modules, 1, moduleDepsMap, <<>>),
        notBundledModules |-> st.discardedModules,
        error |-> resolved.error,
        targetModules |-> targetModules,
        working |-> working,
        depthMap |-> st.depthMap,
        pickedModules |-> st.pickedModules,
        modules |-> modules]

\* Bundler.bundle: params.libs with an amdId and not bundled, less dependentOn.
IgnoreLibs(libs, dependentOn) ==
    LET unbundled == SelectSeq(libs, LAMBDA item : item.amdId # None /\ ~item.bundle)
        ids == [k \in 1..Len(unbundled) |-> unbundled[k].amdId[1]]
    IN SelectSeq(ids, LAMBDA id : ~Includes(IF dependentOn = None THEN <<>> ELSE dependentOn[1], id))

\* Mutant of FilterDirectDeps: the modules of the chunk are not filtered out.
FilterDirectDepsKeepAll(directDepModules, modules) == directDepModules

\* directDepModules.filter(m => !modules.includes(m))
FilterDirectDeps(directDepModules, modules) ==
    SelectSeq(directDepModules, LAMBDA m : ~Includes(modules, m))

\* params.files and the glob of params.patterns, less ignoreFullPathFiles.
FullPathFiles(targets, ignoreFullPathFiles) ==
    SelectSeq(targets, LAMBDA file : ~Includes(ignoreFullPathFiles, file))

\* Bundler.bundle.  params.targets is what params.files and the glob of
\* params.patterns give, params.lookup the glob of the lookup patterns.
\* A thrown resolution error leaves no data: error names the module.
Bundle(t, params) ==
    LET fullPathFiles == FullPathFiles(params.targets, params.ignoreFullPathFiles)
        ignoreLibs == IgnoreLibs(params.libs, params.dependentOn)
        sf == SortFiles(t, fullPathFiles, params.lookup, ignoreLibs, params.ignoreFullPathFiles,
                        params.dependentOn, params.mapDependencies, params.libs)
        modules == [k \in 1..Len(sf.files) |-> ObtainModuleName(sf.files[k])]
    IN [error |-> sf.error,
        contents |-> IF sf.error # None THEN <<>>
                     ELSE [k \in 1..Len(sf.files) |-> <<"source", sf.files[k]>>],
        files |-> IF sf.error # None THEN <<>> ELSE sf.files,
        modules |-> IF sf.error # None THEN <<>> ELSE modules,
        notBundledModules |-> IF sf.error # None THEN <<>> ELSE sf.notBundledModules,
        dependencyModules |-> IF sf.error # None THEN <<>> ELSE sf.depModules,
        directDependencyModules |-> IF sf.error # None THEN <<>>
                                    ELSE FilterDirectDeps(sf.directDepModules, modules),
        ignoreLibs |-> ignoreLibs,
        sortFiles |-> sf]

-----------------------------------------------------------------------------
(* The bounded inputs *)

A == <<"a">>
B == <<"b">>
C == <<"c">>
X == <<"x">>          \* an id with no file in the lookup scope and no lib entry
Y == <<"y">>          \* another such id
Jq == <<"jq">>        \* the amdId of a lib that is not bundled
LibJq == <<"lib", "jq">>
LibX == <<"lib", "x">>
TextJq == <<"text", "jq">>

\* The lib registry: an entry with no amdId, and the lib jq, not bundled.
Libs == <<[amdId |-> None, bundle |-> TRUE], [amdId |-> Some(Jq), bundle |-> FALSE]>>

\* The glob of the lookup patterns.
Lookup == <<File("a"), File("b"), File("c")>>

\* The ids a module of the bounded trees may depend on.  Dependencies point
\* from a to b to c only: the trees are acyclic.
DepChoices(stem) ==
    CASE stem = "a" -> {B, C, Y}
      [] stem = "b" -> {C, Jq, TextJq, X}
      [] stem = "c" -> {LibJq, LibX}

Trees(choices(_)) ==
    {(File("a") :> [module |-> TRUE, deps |-> da])
        @@ (File("b") :> [module |-> TRUE, deps |-> db])
        @@ (File("c") :> [module |-> TRUE, deps |-> dc]) :
        da \in SeqsUpTo(choices("a"), MaxDeps),
        db \in SeqsUpTo(choices("b"), MaxDeps),
        dc \in SeqsUpTo(choices("c"), MaxDeps)}

BundlerTrees == Trees(DepChoices)

\* The non-empty sub-lists of a list, in its order.
SubLists(list) ==
    {SelectSeq(list, LAMBDA f : f \in S) : S \in SUBSET Range(list)} \ {<<>>}

BundlerParams ==
    [name : {"chunk"},
     targets : SubLists(Lookup),
     lookup : {Lookup},
     ignoreFullPathFiles : {<<>>, <<File("b")>>, <<File("c")>>, <<File("x")>>},
     dependentOn : {None, Some(<<Jq>>), Some(<<X>>)},
     mapDependencies : BOOLEAN,
     libs : {Libs}]

NoCall == [made |-> FALSE, params |-> None, data |-> None]

-----------------------------------------------------------------------------
(* BundlerSpec: one Bundler, called on a source tree *)

BundlerInit ==
    /\ tree \in BundlerTrees
    /\ call = NoCall
    /\ config = None
    /\ mainBundleFiles = <<>>
    /\ run = None
    /\ history = <<>>

\* bundler.bundle(params)
BundleCall ==
    /\ ~call.made
    /\ \E params \in BundlerParams :
          call' = [made |-> TRUE, params |-> params, data |-> Bundle(tree, params)]
    /\ UNCHANGED <<tree, config, mainBundleFiles, run, history>>

BundlerNext == BundleCall

BundlerSpec == BundlerInit /\ [][BundlerNext]_vars

-----------------------------------------------------------------------------
(* BundlerGeneral: the orchestrator *)

Order == <<"main", "chunkA", "chunkB">>

Standalone == File("s")   \* a targeted file that is not a module (a standalone file)

\* The glob of config.lookupPatterns.
GeneralLookup == <<File("a"), File("b"), File("c"), Standalone>>

GeneralDepChoices(stem) ==
    CASE stem = "a" -> {B, C}
      [] stem = "b" -> {C}
      [] stem = "c" -> {LibJq}

GeneralTrees == {t @@ (Standalone :> NotModule) : t \in Trees(GeneralDepChoices)}

\* What the patterns of each chunk match.
ChunkTargets(name) ==
    CASE name = "main" -> {<<Standalone>>, <<File("c")>>, <<File("b"), Standalone>>}
      [] name = "chunkA" -> {<<File("b")>>, <<File("a")>>, <<File("b"), Standalone>>}
      [] name = "chunkB" -> {<<File("a")>>, <<File("c")>>, <<File("a"), File("b")>>}

ChunkOptions(name) ==
    [patterns : {Some(ts) : ts \in ChunkTargets(name)},
     noDuplicates : IF name = "main" THEN {FALSE} ELSE BOOLEAN,
     dependentOn : IF name = "main" THEN {None} ELSE {None, Some(<<C>>)},
     mapDependencies : {name = "chunkB"},
     requires : {<<>>}]

Configs ==
    [order : {Order},
     lookupPatterns : {GeneralLookup},
     chunks : {[main |-> m, chunkA |-> ca, chunkB |-> cb] :
                  m \in ChunkOptions("main"),
                  ca \in ChunkOptions("chunkA"),
                  cb \in ChunkOptions("chunkB")}]

\* #bundleChunk for a chunk with no patterns: nothing is bundled.
NoData ==
    [error |-> None, contents |-> <<>>, modules |-> <<>>, files |-> <<>>,
     notBundledModules |-> <<>>, dependencyModules |-> <<>>, directDependencyModules |-> <<>>]

\* The files Bundler.bundle is told to ignore for a chunk.
IgnoreFiles(mainFiles, noDuplicates, alreadyBundledFiles) ==
    mainFiles \o (IF noDuplicates THEN alreadyBundledFiles ELSE <<>>)

\* m => map[m] = name for every m of modules.
MapAll(map, modules, name) ==
    [m \in DOMAIN map \cup Range(modules) |-> IF m \in Range(modules) THEN name ELSE map[m]]

\* The locals of bundle() at its start.
FreshRun ==
    [pc |-> "chunks", i |-> 1,
     result |-> <<>>, mapping |-> <<>>, files |-> <<>>, modules |-> <<>>,
     notBundledMap |-> <<>>, moduleChunkMap |-> <<>>, chunkDirectDependentModulesMap |-> <<>>,
     data |-> <<>>, warnings |-> <<>>, notBundledModules |-> <<>>]

Idle == [FreshRun EXCEPT !.pc = "idle"]

\* The loader statements bundle() appends to the main chunk for a chunk.
LoaderStatements(name, requires) ==
    (IF Len(requires) > 0 THEN <<<<"mapBundleDependencies", name, requires>>>> ELSE <<>>)
    \o <<<<"mapBundleFile", name>>>>

\* BundlerGeneral.#bundleChunk (no templatePatterns): the data of the chunk.
BundleChunkData(t, cfg, mainFiles, name, alreadyBundledFiles) ==
    IF cfg.chunks[name].patterns = None THEN NoData
    ELSE Bundle(t, [name |-> name,
                    targets |-> cfg.chunks[name].patterns[1],
                    lookup |-> cfg.lookupPatterns,
                    ignoreFullPathFiles |->
                        IgnoreFiles(mainFiles, cfg.chunks[name].noDuplicates, alreadyBundledFiles),
                    dependentOn |-> cfg.chunks[name].dependentOn,
                    mapDependencies |-> cfg.chunks[name].mapDependencies,
                    libs |-> Libs])

\* this.mainBundleFiles after #bundleChunk: the files of the main chunk.
MainBundleFiles(mainFiles, cfg, name, isMain, data) ==
    IF isMain /\ cfg.chunks[name].patterns # None /\ data.error = None
    THEN data.files
    ELSE mainFiles

\* What #bundleChunk returns of the data.
Returned(data) ==
    [contents |-> data.contents,
     modules |-> data.modules,
     files |-> data.files,
     notBundledModules |-> data.notBundledModules,
     dependencyModules |-> data.dependencyModules,
     directDependencyModules |-> data.directDependencyModules]

\* The pass of the loop of bundle() over chunk i, on the locals r.
AfterChunk(r, cfg, i, data) ==
    [r EXCEPT
        !.pc = IF i = Len(Order) THEN "warnings" ELSE "chunks",
        !.i = i + 1,
        !.files = @ \o data.files,
        !.modules = @ \o data.modules,
        !.notBundledMap = (Order[i] :> data.notBundledModules) @@ @,
        !.chunkDirectDependentModulesMap = (Order[i] :> data.directDependencyModules) @@ @,
        !.moduleChunkMap = IF i > 1 THEN MapAll(@, data.modules, Order[i]) ELSE @,
        !.mapping = IF i = 1 /\ Len(Order) > 1 THEN @ ELSE MapAll(@, data.modules, Order[i]),
        !.result = IF i = 1 /\ Len(Order) > 1
                   THEN (Order[i] :> data.contents) @@ @
                   ELSE [(Order[i] :> data.contents) @@ @ EXCEPT ![Order[1]] =
                            @ \o LoaderStatements(Order[i],
                                     cfg.chunks[Order[i]].requires
                                     \o (IF cfg.chunks[Order[i]].mapDependencies
                                         THEN data.dependencyModules ELSE <<>>))],
        !.data = (Order[i] :> Returned(data)) @@ @]

Init ==
    /\ tree \in GeneralTrees
    /\ config \in Configs
    /\ mainBundleFiles = <<>>
    /\ run = Idle
    /\ history = <<>>
    /\ call = NoCall

\* bundle() is called on the instance.
StartBundle ==
    /\ run.pc = "idle"
    /\ Len(history) < MaxRuns
    /\ run' = FreshRun
    /\ UNCHANGED <<tree, call, config, mainBundleFiles, history>>

\* One pass of the loop over config.order in bundle(): the chunk is
\* resolved and the locals are updated; a thrown error ends the call.
BundleChunk ==
    /\ run.pc = "chunks"
    /\ \E data \in {BundleChunkData(tree, config, mainBundleFiles, Order[run.i], run.files)} :
          /\ mainBundleFiles' = MainBundleFiles(mainBundleFiles, config, Order[run.i], run.i = 1, data)
          /\ IF data.error # None
             THEN /\ run' = Idle
                  /\ history' = Append(history, [error |-> data.error, result |-> <<>>,
                                                 data |-> <<>>, warnings |-> <<>>,
                                                 notBundledModules |-> <<>>])
             ELSE /\ run' = AfterChunk(run, config, run.i, data)
                  /\ UNCHANGED history
    /\ UNCHANGED <<tree, call, config>>

\* The chunks the direct dependencies of chunk `name` are mapped to, in the
\* order met, each once; and those dependencies.
RECURSIVE DependsOn(_, _, _, _)
DependsOn(directDeps, k, moduleChunkMap, acc) ==
    IF k > Len(directDeps) THEN acc
    ELSE LET m == directDeps[k]
         IN IF m \notin DOMAIN moduleChunkMap THEN DependsOn(directDeps, k + 1, moduleChunkMap, acc)
            ELSE DependsOn(directDeps, k + 1, moduleChunkMap,
                           [deps |-> Append(acc.deps, m),
                            dependsOnChunks |->
                                IF Includes(acc.dependsOnChunks, moduleChunkMap[m])
                                THEN acc.dependsOnChunks
                                ELSE Append(acc.dependsOnChunks, moduleChunkMap[m])])

\* The warnings of the loop over config.order.slice(1).
RECURSIVE Warnings(_, _, _, _)
Warnings(names, k, r, out) ==
    IF k > Len(names) THEN out
    ELSE LET d == DependsOn(r.chunkDirectDependentModulesMap[names[k]], 1, r.moduleChunkMap,
                            [deps |-> <<>>, dependsOnChunks |-> <<>>])
         IN Warnings(names, k + 1, r,
                     IF Len(d.dependsOnChunks) > 0
                     THEN Append(out, [chunk |-> names[k], dependsOnChunks |-> d.dependsOnChunks,
                                       deps |-> d.deps])
                     ELSE out)

\* bundle(), after the chunks: the cross-chunk warnings.
CrossChunkWarnings ==
    /\ run.pc = "warnings"
    /\ run' = [run EXCEPT !.pc = "report",
                          !.warnings = Warnings(Tail(Order), 1, run, <<>>)]
    /\ UNCHANGED <<tree, call, config, mainBundleFiles, history>>

\* The modules reported by some chunk and bundled in none.
RECURSIVE NotBundled(_, _, _, _)
NotBundled(names, k, r, out) ==
    IF k > Len(names) THEN out
    ELSE NotBundled(names, k + 1, r,
                    PushMissing(out, SelectSeq(r.notBundledMap[names[k]],
                                               LAMBDA item : ~Includes(r.modules, item))))

\* bundle(), its end: the not-bundled report, the bundle mapping appended to
\* the main chunk, and the return of the result.
Report ==
    /\ run.pc = "report"
    /\ LET result == [run.result EXCEPT ![Order[1]] = @ \o <<<<"addBundleMapping", run.mapping>>>>]
       IN history' = Append(history, [error |-> None, result |-> result, data |-> run.data,
                                      warnings |-> run.warnings,
                                      notBundledModules |-> NotBundled(Order, 1, run, <<>>)])
    /\ run' = Idle
    /\ UNCHANGED <<tree, call, config, mainBundleFiles>>

Next == StartBundle \/ BundleChunk \/ CrossChunkWarnings \/ Report

Spec == Init /\ [][Next]_vars

-----------------------------------------------------------------------------
(* What the claims speak of *)

\* The dependencies module `name` declares in the lookup scope.
Declared(name) ==
    IF /\ Len(name) = 1
       /\ File(name[1]) \in DOMAIN tree
       /\ tree[File(name[1])].module
    THEN tree[File(name[1])].deps
    ELSE <<>>

HasFile(name) ==
    Len(name) = 1 /\ File(name[1]) \in DOMAIN tree /\ tree[File(name[1])].module

\* Everything reachable from the ids of S by zero or more dependency edges.
RECURSIVE ReachFrom(_)
ReachFrom(S) ==
    LET next == S \cup {d \in UNION {Range(Declared(n)) : n \in S} : TRUE}
    IN IF next = S THEN S ELSE ReachFrom(next)

\* id is `e` or 'lib!e' for an entry e of list.
NamesEntry(id, list) == \E e \in Range(list) : id = e \/ id = <<"lib">> \o e

\* id, stripped of any plugin prefix, is an entry of list.
TailNamesEntry(id, list) == \E e \in Range(list) : <<id[Len(id)]>> = e

\* Module m declares a dependency on a lib that is not bundled.
DependsOnExcluded(m, excludedLibs) ==
    \E d \in Range(Declared(m)) : NamesEntry(d, excludedLibs)

\* m has a dependency path, of any length, to a module depending on such a lib.
ReachesExcluded(m, excludedLibs) ==
    \E p \in ReachFrom({m}) : DependsOnExcluded(p, excludedLibs)

Before(list, d, m) ==
    \E i, j \in 1..Len(list) : list[i] = d /\ list[j] = m /\ i < j

sf == call.data.sortFiles

-----------------------------------------------------------------------------
(* Claims on chunk resolution, checked under BundlerSpec *)

\* C1: the module order of a resolved chunk is a valid dependency order:
\* every non-plugin dependency D of a module M of the final set that is itself
\* in the final set stands strictly before M.
C1_ValidDependencyOrder ==
    call.made =>
        \A m \in Range(sf.modules) : \A d \in Range(Declared(m)) :
            (~IncludesBang(d) /\ d \in Range(sf.modules)) => Before(sf.modules, d, m)

\* C1 witness: a requires c and b, b requires c; c is first met at depth 1
\* and raised to 2, and the chunk is ordered c, b, a.
C1_Witness ==
    /\ call.made
    /\ tree[File("a")].deps = <<C, B>>
    /\ tree[File("b")].deps = <<C>>
    /\ call.params.targets = Lookup
    /\ sf.modules = <<C, B, A>>
    /\ call.data.files = <<File("c"), File("b"), File("a")>>

\* C2: no module of the final set has a dependency path to a module that
\* depends on a lib that is not bundled, and every module of the working
\* list that has such a path is reported in notBundledModules.
C2_ExcludedLibsPropagate ==
    call.made =>
        /\ \A m \in Range(sf.modules) : ~ReachesExcluded(m, call.data.ignoreLibs)
        /\ \A m \in Range(sf.working) :
              ReachesExcluded(m, call.data.ignoreLibs) => m \in Range(sf.notBundledModules)

\* C2 witness: a -> b -> c -> lib!jq; a is dropped over a path of length two.
C2_Witness ==
    /\ call.made
    /\ tree[File("a")].deps = <<B>>
    /\ tree[File("b")].deps = <<C>>
    /\ tree[File("c")].deps = <<LibJq>>
    /\ call.params.targets = <<File("a")>>
    /\ call.data.error = None
    /\ call.data.ignoreLibs = <<Jq>>
    /\ Range(call.data.notBundledModules) = {A, B, C}
    /\ call.data.modules = <<>>

\* The chains m1 -> m2 -> c of declared dependencies.
Chains ==
    {ch \in (Range(sf.working) \cup DOMAIN sf.depthMap) \X {A, B, C} \X {Jq, LibJq, LibX, TextJq, X, Y} :
        /\ HasFile(ch[1])
        /\ ch[2] \in Range(Declared(ch[1]))
        /\ ch[3] \in Range(Declared(ch[2]))}

\* C3 as stated: with A -> B -> C and C, stripped of any plugin prefix, an
\* excluded lib, A, B and C are absent from the final set and all three are
\* in notBundledModules.
C3_Original ==
    call.made =>
        \A ch \in Chains :
            (ch[1] \in Range(sf.working) /\ TailNamesEntry(ch[3], call.data.ignoreLibs)) =>
                /\ {ch[1], ch[2], ch[3]} \cap Range(sf.modules) = {}
                /\ {ch[1], ch[2]} \subseteq Range(sf.notBundledModules)
                /\ \/ ch[3] \in Range(sf.notBundledModules)
                   \/ <<ch[3][Len(ch[3])]>> \in Range(sf.notBundledModules)

\* C3 amended: with A -> B -> C and C an excluded lib id (plain or
\* 'lib!'-prefixed), A and B are absent from the final set, and each of them
\* that is in the working list is in notBundledModules.
C3_DiscardPropagation ==
    call.made =>
        \A ch \in Chains :
            NamesEntry(ch[3], call.data.ignoreLibs) =>
                /\ {ch[1], ch[2]} \cap Range(sf.modules) = {}
                /\ {ch[1], ch[2]} \cap Range(call.data.modules) = {}
                /\ \A m \in {ch[1], ch[2]} \cap Range(sf.working) :
                      m \in Range(sf.notBundledModules)

\* C3 witness: a -> b -> jq with jq excluded: a and b are reported, jq is
\* in the final set (it resolves to the lib, without a file) and unreported.
C3_Witness ==
    /\ call.made
    /\ tree[File("a")].deps = <<B>>
    /\ tree[File("b")].deps = <<Jq>>
    /\ call.params.targets = <<File("a")>>
    /\ call.data.error = None
    /\ call.data.ignoreLibs = <<Jq>>
    /\ call.data.notBundledModules = <<A, B>>
    /\ sf.modules = <<Jq>>
    /\ call.data.files = <<>>

\* Module p declares a dependency named by an entry of dependentOn.
DependsOnPicked(p, dependentOn) ==
    \E d \in Range(Declared(p)) : NamesEntry(d, dependentOn)

\* C6: with dependentOn, a module is in the final set only if a dependency
\* path from it reaches a module with a direct dependency matching an
\* entry; with dependentOn = [x] and the only chain a -> b -> x (x has no
\* file) the final set is exactly {a, b}, and c, unrelated, is left out
\* though it is not discarded.
C6_DependentOnFiltering ==
    (call.made /\ call.params.dependentOn # None) =>
        /\ \A m \in Range(sf.modules) :
              \E p \in ReachFrom({m}) : DependsOnPicked(p, call.params.dependentOn[1])
        /\ ( /\ tree[File("a")].deps = <<B>>
             /\ tree[File("b")].deps = <<X>>
             /\ tree[File("c")].deps = <<>>
             /\ call.params.dependentOn = Some(<<X>>)
             /\ A \in Range(sf.working) )
           => /\ Range(sf.modules) = {A, B}
              /\ Range(call.data.modules) = {A, B}
              /\ C \notin Range(sf.notBundledModules)

\* C6 witness: the chain a -> b -> x, all three files targeted: c is walked,
\* is not discarded, and is left out; b and a are bundled in that order.
C6_Witness ==
    /\ call.made
    /\ tree[File("a")].deps = <<B>>
    /\ tree[File("b")].deps = <<X>>
    /\ tree[File("c")].deps = <<>>
    /\ call.params.dependentOn = Some(<<X>>)
    /\ call.params.targets = Lookup
    /\ call.params.ignoreFullPathFiles = <<>>
    /\ C \in Range(sf.working)
    /\ call.data.notBundledModules = <<>>
    /\ call.data.files = <<File("b"), File("a")>>

IsLibId(u) == \E k \in 1..Len(call.params.libs) : call.params.libs[k].amdId = Some(u)

\* The non-plugin ids, reachable from a target module, with neither a file
\* in the lookup scope nor a lib entry.
UnresolvableReached ==
    {u \in ReachFrom(Range(sf.targetModules)) :
        ~IncludesBang(u) /\ ~HasFile(u) /\ ~IsLibId(u)}

IgnoredModules ==
    {ObtainModuleName(f) : f \in Range(call.params.ignoreFullPathFiles)}

\* C7 as stated: a target that depends, directly or transitively, on a
\* non-plugin id with no file and no lib entry aborts the resolution with an
\* error naming that id, whatever mapDependencies and dependentOn are
\* (read of the ids that are not modules of ignored files).
C7_Original ==
    call.made =>
        \A u \in UnresolvableReached \ IgnoredModules :
            /\ call.data.error = Some(u)
            /\ call.data.files = <<>>
            /\ call.data.modules = <<>>

\* C7 amended: when mapDependencies is not set and dependentOn is not
\* supplied, a target that depends, directly or transitively, on a
\* non-plugin id that has no file in the lookup scope, matches no lib entry
\* and is not the module of an ignored file aborts the resolution with an
\* error naming one such id, and no chunk data is returned.
C7_UnresolvableAborts ==
    ( /\ call.made
      /\ ~call.params.mapDependencies
      /\ call.params.dependentOn = None
      /\ UnresolvableReached \ IgnoredModules # {} ) =>
            /\ call.data.error # None
            /\ call.data.error[1] \in UnresolvableReached \ IgnoredModules
            /\ call.data.files = <<>>
            /\ call.data.modules = <<>>
            /\ call.data.contents = <<>>

\* C7 witness: a requires y and b, b requires x: the deepest, x, is named.
C7_Witness ==
    /\ call.made
    /\ ~call.params.mapDependencies
    /\ call.params.dependentOn = None
    /\ call.params.targets = <<File("a")>>
    /\ UnresolvableReached = {X, Y}
    /\ call.data.error = Some(X)
    /\ call.data.files = <<>>

GivenDependentOn == IF call.params.dependentOn = None THEN <<>> ELSE call.params.dependentOn[1]

\* C8 as stated: the walker matches the plugin-stripped tail of every
\* plugin-prefixed dependency against excludedLibs and dependentOn: the
\* module is discarded over an excluded tail, and picked over a dependentOn
\* tail (read of a module none of whose dependencies has an excluded tail).
C8_Original ==
    call.made =>
        \A m \in DOMAIN sf.depthMap : \A d \in Range(Declared(m)) :
            IncludesBang(d) =>
                /\ TailNamesEntry(d, call.data.ignoreLibs) => m \in Range(sf.notBundledModules)
                /\ ( /\ TailNamesEntry(d, GivenDependentOn)
                     /\ \A e \in Range(Declared(m)) : ~TailNamesEntry(e, call.data.ignoreLibs) )
                      => m \in Range(sf.pickedModules)

\* C8 amended: the walker strips the prefix 'lib!' only.  A walked module
\* that depends on lib!foo is discarded when foo is in excludedLibs, and is
\* picked when foo is in dependentOn and no earlier dependency of it is an
\* excluded lib; any other plugin-prefixed id (text!foo/bar) is matched as a
\* whole, so it neither discards nor picks: a module is discarded or picked
\* only over a dependency that is an entry or 'lib!' and an entry.
C8_LibPrefixOnly ==
    call.made =>
        \A m \in DOMAIN sf.depthMap :
            LET deps == Declared(m)
            IN /\ \A k \in 1..Len(deps) :
                    /\ (\E e \in Range(call.data.ignoreLibs) : deps[k] = <<"lib">> \o e)
                          => m \in Range(sf.notBundledModules)
                    /\ ( /\ \E e \in Range(GivenDependentOn) : deps[k] = <<"lib">> \o e
                         /\ \A j \in 1..(k - 1) : ~NamesEntry(deps[j], call.data.ignoreLibs) )
                          => m \in Range(sf.pickedModules)
               /\ m \in Range(sf.notBundledModules) => ReachesExcluded(m, call.data.ignoreLibs)
               /\ m \in Range(sf.pickedModules) =>
                     \E p \in ReachFrom({m}) : DependsOnPicked(p, GivenDependentOn)

\* C8 witness: b requires text!jq and c, c requires lib!x; jq is excluded
\* and x is in dependentOn: text!jq discards nothing, lib!x picks b and c.
C8_Witness ==
    /\ call.made
    /\ tree[File("b")].deps = <<TextJq, C>>
    /\ tree[File("c")].deps = <<LibX>>
    /\ call.params.targets = <<File("b")>>
    /\ call.params.dependentOn = Some(<<X>>)
    /\ call.data.ignoreLibs = <<Jq>>
    /\ call.data.notBundledModules = <<>>
    /\ sf.pickedModules = <<B, C>>
    /\ call.data.files = <<File("c"), File("b")>>

-----------------------------------------------------------------------------
(* Claims on the orchestrator, checked under Spec *)

\* The chunks resolved so far by the running bundle() call.
Resolved == DOMAIN run.data

ChunkIndex(name) == CHOOSE k \in 1..Len(Order) : Order[k] = name

\* C4 as stated: whatever noDuplicates and dependentOn of a chunk other than
\* main are, no file and no module of the main chunk is in its files or in
\* its modules.
C4_MainNeverDuplicated ==
    \A n \in Resolved \ {"main"} :
        /\ Range(run.data[n].files) \cap Range(run.data["main"].files) = {}
        /\ Range(run.data[n].modules) \cap Range(run.data["main"].modules) = {}

\* C5 as stated: a chunk with noDuplicates holds no file and no module of
\* a chunk processed before it, whatever its dependentOn.
C5_NoDuplicatesAcrossChunks ==
    \A n \in Resolved : \A e \in Resolved :
        (config.chunks[n].noDuplicates /\ ChunkIndex(e) < ChunkIndex(n)) =>
            /\ Range(run.data[n].files) \cap Range(run.data[e].files) = {}
            /\ Range(run.data[n].modules) \cap Range(run.data[e].modules) = {}

\* What a finished call shows of a chunk.
Shown(h, n) == [files |-> h.data[n].files, modules |-> h.data[n].modules, contents |-> h.result[n]]

\* C10 as stated: a second bundle() on the same instance, the tree and the
\* configuration unchanged, gives every chunk the files, the modules and the
\* contents of the first.
C10_SecondRunSame ==
    (Len(history) >= 2 /\ history[1].error = None /\ history[2].error = None) =>
        \A n \in Range(Order) : Shown(history[2], n) = Shown(history[1], n)

\* The chunks other than main that bundled module m, and the last of them
\* in the order: the owner of m in the module -> chunk map.
Owners(m) == {k \in 2..Len(Order) : m \in Range(run.data[Order[k]].modules)}
Owner(m) == Order[CHOOSE k \in Owners(m) : \A j \in Owners(m) : j <= k]

OwningChunks(n) ==
    {Owner(m) : m \in {d \in Range(run.data[n].directDependencyModules) : Owners(d) # {}}}

\* The modules that the modules bundled in chunk n require directly.
Required(n) == UNION {Range(Declared(m)) : m \in Range(run.data[n].modules)}

WarningsOf(n) == SelectSeq(run.warnings, LAMBDA w : w.chunk = n)

\* C9: once all chunks are resolved, a chunk other than main is warned about
\* exactly when one of its directDependencyModules is owned by a chunk other
\* than main; the warning is emitted once, lists every owning chunk once,
\* never the chunk itself nor main; and when a module of chunk n requires a
\* module bundled by the one chunk a, n is warned about a, and about a alone
\* when a owns all that n requires of other chunks.
C9_CrossChunkWarning ==
    run.pc = "report" =>
        \A n \in Range(Tail(Order)) :
            LET ws == WarningsOf(n)
            IN /\ Len(ws) = (IF OwningChunks(n) # {} THEN 1 ELSE 0)
               /\ \A k \in 1..Len(ws) :
                     /\ Range(ws[k].dependsOnChunks) = OwningChunks(n)
                     /\ Len(ws[k].dependsOnChunks) = Cardinality(OwningChunks(n))
                     /\ n \notin Range(ws[k].dependsOnChunks)
                     /\ "main" \notin Range(ws[k].dependsOnChunks)
               /\ \A a \in Range(Tail(Order)) \ {n} : \A m \in Required(n) :
                     (\A e \in Range(Order) : m \in Range(run.data[e].modules) <=> e = a) =>
                        /\ Len(ws) = 1
                        /\ Includes(ws[1].dependsOnChunks, a)
                        /\ (\A d \in Required(n) \ Range(run.data[n].modules) :
                               Owners(d) # {} => Owner(d) = a)
                              => ws[1].dependsOnChunks = <<a>>

\* C9 witness: chunkA bundles b, chunkB (noDuplicates) bundles a, which
\* requires b: the one warning names chunkB and chunkA.
C9_Witness ==
    /\ run.pc = "report"
    /\ tree[File("a")].deps = <<B>>
    /\ config.chunks["chunkB"].noDuplicates
    /\ B \in Range(run.data["chunkA"].modules)
    /\ run.data["chunkB"].modules = <<A>>
    /\ run.warnings = <<[chunk |-> "chunkB", dependsOnChunks |-> <<"chunkA">>, deps |-> <<B>>]>>

-----------------------------------------------------------------------------
(* RecursionSpec: #obtainAllDeps and #buildTreeItem frame by frame, on     *)
(* source trees that may hold dependency cycles                            *)

\* The ids a module of these trees may depend on: b and c may require a back.
CyclicDepChoices(stem) ==
    CASE stem = "a" -> {B, C}
      [] stem = "b" -> {A, C, LibJq}
      [] stem = "c" -> {A, TextJq}

CyclicTrees == Trees(CyclicDepChoices)

\* moduleDepsMap of #sortFiles for the lookup scope Lookup.
ModuleDepsMap(t) ==
    [n \in {ObtainModuleName(f) : f \in {g \in Range(Lookup) : ObtainModuleData(t, g) # None}}
        |-> ObtainModuleData(t, FileOfModule(t, Lookup, n))[1].deps]

\* A frame of the call stack: the module of the call and the index of the
\* dependency its forEach loop visits next.
Frame(name, i) == [name |-> name, i |-> i]

\* The modules of the calls on the stack, outermost first: the `path` of
\* #buildTreeItem once the module of the call is pushed.
StackPath(stack) == [k \in 1..Len(stack) |-> stack[k].name]

Top(stack) == stack[Len(stack)]

Advance(stack) == [stack EXCEPT ![Len(stack)].i = @ + 1]

RecursionInit ==
    /\ tree \in CyclicTrees
    /\ call = NoCall
    /\ config = None
    /\ mainBundleFiles = <<>>
    /\ run = None
    /\ history = <<>>

Running(fn) == call.made /\ call.params.fn = fn /\ call.data.status = "running"

\* this.#obtainAllDeps(name, moduleDepsMap): list = []
CallObtainAllDeps ==
    /\ ~call.made
    /\ \E name \in DOMAIN ModuleDepsMap(tree) :
          call' = [made |-> TRUE,
                   params |-> [fn |-> "obtainAllDeps", name |-> name,
                               ignoreLibs |-> <<>>, dependentOn |-> None],
                   data |-> [status |-> "running", stack |-> <<Frame(name, 1)>>,
                             list |-> <<>>, st |-> EmptyWalk]]
    /\ UNCHANGED <<tree, config, mainBundleFiles, run, history>>

\* One iteration of deps.forEach in #obtainAllDeps: push the name if the
\* list does not hold it, return on a plugin id, otherwise recurse.
ObtainAllDepsVisit ==
    /\ Running("obtainAllDeps")
    /\ \E stack \in {call.data.stack} : \E deps \in {DepsOf(ModuleDepsMap(tree), Top(stack).name)} :
          /\ Top(stack).i <= Len(deps)
          /\ \E depName \in {deps[Top(stack).i]} :
                call' = [call EXCEPT
                    !.data.list = IF ~Includes(@, depName) THEN Append(@, depName) ELSE @,
                    !.data.stack = IF IncludesBang(depName) \/ Len(stack) >= MaxStack
                                   THEN Advance(stack)
                                   ELSE Append(Advance(stack), Frame(depName, 1)),
                    !.data.status = IF ~IncludesBang(depName) /\ Len(stack) >= MaxStack
                                    THEN "overflow" ELSE @]
    /\ UNCHANGED <<tree, config, mainBundleFiles, run, history>>

\* The forEach of a call of #obtainAllDeps is over: return list.
ObtainAllDepsReturn ==
    /\ Running("obtainAllDeps")
    /\ \E stack \in {call.data.stack} :
          /\ Top(stack).i > Len(DepsOf(ModuleDepsMap(tree), Top(stack).name))
          /\ call' = [call EXCEPT
                !.data.stack = SubSeq(stack, 1, Len(stack) - 1),
                !.data.status = IF Len(stack) = 1 THEN "returned" ELSE @]
    /\ UNCHANGED <<tree, config, mainBundleFiles, run, history>>

\* The entry of a call of #buildTreeItem under the calls of `stack`: the
\* path, the depth update, the return on no deps, the first loop over deps.
\* A call that returns before its second loop gets a frame with that loop over.
EnterBuildTreeItem(module, map, ignoreLibs, dependentOn, st, stack) ==
    LET deps == DepsOf(map, module)
        path == Append(StackPath(stack), module)
        st1 == [st EXCEPT !.depthMap = RaiseDepth(@, module, Len(stack))]
        scan == ScanDeps(deps, 1, path, ignoreLibs, dependentOn, st1)
    IN IF Len(deps) = 0 THEN [st |-> st1, stack |-> Append(stack, Frame(module, 1))]
       ELSE IF scan.returned
       THEN [st |-> scan.st, stack |-> Append(stack, Frame(module, Len(deps) + 1))]
       ELSE [st |-> scan.st, stack |-> Append(stack, Frame(module, 1))]

\* this.#buildTreeItem(name, moduleDepsMap, depthMap, ignoreLibs, dependentOn,
\* discardedModules, pickedModules) for a root of the walk.
CallBuildTreeItem ==
    /\ ~call.made
    /\ \E module \in DOMAIN ModuleDepsMap(tree), ignoreLibs \in {<<>>, <<Jq>>},
          dependentOn \in {None, Some(<<C>>)} :
          \E e \in {EnterBuildTreeItem(module, ModuleDepsMap(tree), ignoreLibs,
                                       dependentOn, EmptyWalk, <<>>)} :
             call' = [made |-> TRUE,
                      params |-> [fn |-> "buildTreeItem", name |-> module,
                                  ignoreLibs |-> ignoreLibs, dependentOn |-> dependentOn],
                      data |-> [status |-> "running", stack |-> e.stack,
                                list |-> <<>>, st |-> e.st]]
    /\ UNCHANGED <<tree, config, mainBundleFiles, run, history>>

\* One iteration of the second loop of #buildTreeItem: skip an excluded
\* lib, otherwise recurse with depth + 1 and the path.
BuildTreeItemVisit ==
    /\ Running("buildTreeItem")
    /\ \E stack \in {call.data.stack} : \E deps \in {DepsOf(ModuleDepsMap(tree), Top(stack).name)} :
          /\ Top(stack).i <= Len(deps)
          /\ \E depName \in {deps[Top(stack).i]} :
                IF IsLib(depName, call.params.ignoreLibs)
                THEN call' = [call EXCEPT !.data.stack = Advance(stack)]
                ELSE IF Len(stack) >= MaxStack
                THEN call' = [call EXCEPT !.data.stack = Advance(stack),
                                          !.data.status = "overflow"]
                ELSE \E e \in {EnterBuildTreeItem(depName, ModuleDepsMap(tree),
                                                  call.params.ignoreLibs, call.params.dependentOn,
                                                  call.data.st, Advance(stack))} :
                        call' = [call EXCEPT !.data.stack = e.stack, !.data.st = e.st]
    /\ UNCHANGED <<tree, config, mainBundleFiles, run, history>>

\* The second loop of a call of #buildTreeItem is over: return.
BuildTreeItemReturn ==
    /\ Running("buildTreeItem")
    /\ \E stack \in {call.data.stack} :
          /\ Top(stack).i > Len(DepsOf(ModuleDepsMap(tree), Top(stack).name))
          /\ call' = [call EXCEPT
                !.data.stack = SubSeq(stack, 1, Len(stack) - 1),
                !.data.status = IF Len(stack) = 1 THEN "returned" ELSE @]
    /\ UNCHANGED <<tree, config, mainBundleFiles, run, history>>

RecursionNext ==
    \/ CallObtainAllDeps
    \/ ObtainAllDepsVisit
    \/ ObtainAllDepsReturn
    \/ CallBuildTreeItem
    \/ BuildTreeItemVisit
    \/ BuildTreeItemReturn

RecursionSpec == RecursionInit /\ [][RecursionNext]_vars

\* C11 as stated: no call of #obtainAllDeps or #buildTreeItem is made for a
\* module that is already on the current path, and the recursion never
\* exhausts the call stack: it returns on every finite graph, cyclic or not.
C11_TerminatesOnCycles ==
    (call.made /\ call.params # None) =>
        /\ call.data.status # "overflow"
        /\ \A i, j \in 1..Len(call.data.stack) :
              i # j => call.data.stack[i].name # call.data.stack[j].name

-----------------------------------------------------------------------------
(* ConfigSpec: BundlerGeneral constructed on configurations that may have  *)
(* an empty order or chunks without patterns                               *)

\* A chunk definition with no `patterns`.
NoPatternsOptions(name) ==
    [patterns : {None},
     noDuplicates : IF name = "main" THEN {FALSE} ELSE BOOLEAN,
     dependentOn : {None},
     mapDependencies : {name = "chunkB"},
     requires : {<<>>}]

ChunkOptionsAny(name) == ChunkOptions(name) \cup NoPatternsOptions(name)

ConfigsAny ==
    [order : {<<>>, Order},
     lookupPatterns : {GeneralLookup},
     chunks : {[main |-> m, chunkA |-> ca, chunkB |-> cb] :
                  m \in ChunkOptionsAny("main"),
                  ca \in ChunkOptionsAny("chunkA"),
                  cb \in ChunkOptionsAny("chunkB")}]

\* The constructor threw: there is no instance to call bundle() on.
Thrown == [FreshRun EXCEPT !.pc = "thrown"]

\* Never throws.
ConstructUnchecked(cfg) == Idle

\* new BundlerGeneral(config, libs): throws when config.order is empty.
Construct(cfg) == IF Len(cfg.order) = 0 THEN Thrown ELSE Idle

ConfigInit ==
    /\ tree \in GeneralTrees
    /\ config \in ConfigsAny
    /\ mainBundleFiles = <<>>
    /\ run = Construct(config)
    /\ history = <<>>
    /\ call = NoCall

ConfigSpec == ConfigInit /\ [][Next]_vars

NoPatterns(n) == config.chunks[n].patterns = None

\* C12 as stated: an empty order, and a chunk without patterns, each abort
\* the run with an error: no call of bundle() returns a result.
C12_Original ==
    (Len(config.order) = 0 \/ \E n \in Range(Order) : NoPatterns(n)) =>
        /\ run.pc \in {"thrown", "idle"} \/ (run.pc = "chunks" /\ run.i = 1)
        /\ \A k \in 1..Len(history) : history[k].error # None /\ history[k].result = <<>>

\* C12 amended: an empty order makes the constructor throw, so bundle() is
\* never called and no chunk is resolved; a chunk without patterns is no
\* error: it is given no files, no modules and no source contents, nothing
\* is thrown for it, and the call goes on to the other chunks and returns.
C12_ConfigErrors ==
    /\ Len(config.order) = 0 =>
          run.pc = "thrown" /\ history = <<>> /\ mainBundleFiles = <<>>
    /\ Len(config.order) > 0 =>
          /\ run.pc # "thrown"
          /\ \A n \in Range(Order) : NoPatterns(n) =>
                /\ n \in DOMAIN run.data => run.data[n] = Returned(NoData)
                /\ \A k \in 1..Len(history) :
                      /\ history[k].error = None
                      /\ history[k].data[n] = Returned(NoData)
                      /\ n # "main" => history[k].result[n] = <<>>

\* C12 witness: chunkA has no patterns, and a call of bundle() has returned
\* with chunkA empty and chunkB bundled.
C12_Witness ==
    /\ Len(history) >= 1
    /\ NoPatterns("chunkA")
    /\ history[1].error = None
    /\ history[1].data["chunkA"].files = <<>>
    /\ history[1].data["chunkB"].modules # <<>>

-----------------------------------------------------------------------------
(* Claims on the closure, the depths and the final set, under BundlerSpec *)

NoRepeat(list) == \A i, j \in 1..Len(list) : i # j => list[i] # list[j]

\* The ids reachable from the target modules by one or more dependency
\* edges (a plugin-prefixed id declares nothing), less the targets.
ReachableDeps ==
    ReachFrom(UNION {Range(Declared(t)) : t \in Range(sf.targetModules)})
        \ Range(sf.targetModules)

\* The two lists of the closure of the target modules.
Closure ==
    CollectDeps(sf.targetModules, 1, ModuleDepsMap(tree),
                [allDepModules |-> <<>>, depModules |-> <<>>])

\* C13: the closure of the targets lists, each once, exactly the ids
\* reachable from the target modules by one or more edges that are no
\* targets, plugin-prefixed ids included and not expanded (allDepModules,
\* returned as dependencyModules); depModules is that list without the
\* plugin-prefixed ids.
C13_ClosureIsReachableSet ==
    call.made =>
        LET closure == Closure
        IN /\ sf.depModules = closure.allDepModules
           /\ call.data.error = None => call.data.dependencyModules = sf.depModules
           /\ Range(closure.allDepModules) = ReachableDeps
           /\ NoRepeat(closure.allDepModules)
           /\ closure.depModules = SelectSeq(closure.allDepModules, LAMBDA d : ~IncludesBang(d))

\* C13 witness: a alone is targeted, a requires b, b requires c and text!jq,
\* c requires lib!jq: the closure is b, c, lib!jq, text!jq.
C13_Witness ==
    /\ call.made
    /\ sf.targetModules = <<A>>
    /\ sf.depModules = <<B, C, LibJq, TextJq>>
    /\ Closure.depModules = <<B, C>>

\* The dependencies of the ids of S whose call went on to its second
\* loop (it met no excluded lib): what the walk enters one level deeper.
ExploredNext(S) ==
    UNION {Range(Declared(m)) :
              m \in {x \in S : ~DependsOnExcluded(x, call.data.ignoreLibs)}}

\* The ids the walk enters at the depths 0..k, as a sequence: the modules
\* of the working list at depth 0 (entry 1), their explored dependencies
\* at depth 1, and so on.
RECURSIVE ExploredLevels(_)
ExploredLevels(k) ==
    IF k = 0 THEN <<Range(sf.working)>>
    ELSE LET levels == ExploredLevels(k - 1)
         IN Append(levels, ExploredNext(levels[k]))

\* A path of the bounded trees holds each module of the lookup scope at most
\* once, and one id without a file at its end.
Depths == 0..Len(Lookup)

\* C14 as stated: every dependency D of a module M that has a depth has a
\* depth, and a greater one (read of the dependencies that are no excluded
\* libs).
C14_Original ==
    call.made =>
        \A M \in DOMAIN sf.depthMap : \A D \in Range(Declared(M)) :
            ~NamesEntry(D, call.data.ignoreLibs) =>
                D \in DOMAIN sf.depthMap /\ sf.depthMap[D] > sf.depthMap[M]

\* C14 amended: the modules of the working list are entered at depth 0; the
\* depth of an id is the greatest depth the walk entered it at; and for a
\* module M with a depth that declares no excluded lib, every dependency D
\* of M has a depth, greater than that of M.  (The call for a module that
\* declares an excluded lib returns before it descends.)
C14_DepthOfDependencies ==
    call.made =>
        LET levels == ExploredLevels(Len(Lookup))
            explored == [k \in Depths |-> levels[k + 1]]
        IN /\ DOMAIN sf.depthMap = UNION {explored[k] : k \in Depths}
           /\ \A M \in DOMAIN sf.depthMap :
                 /\ M \in explored[sf.depthMap[M]]
                 /\ \A k \in Depths : M \in explored[k] => k <= sf.depthMap[M]
                 /\ ~DependsOnExcluded(M, call.data.ignoreLibs) =>
                       \A D \in Range(Declared(M)) :
                           D \in DOMAIN sf.depthMap /\ sf.depthMap[D] > sf.depthMap[M]

\* C14 witness: a requires c and then b, b requires c: c is entered at
\* depth 1 and then at depth 2, and keeps 2.
C14_Witness ==
    /\ call.made
    /\ tree[File("a")].deps = <<C, B>>
    /\ C \in Range(tree[File("b")].deps)
    /\ A \in Range(sf.working)
    /\ ~ReachesExcluded(A, call.data.ignoreLibs)
    /\ sf.depthMap[A] = 0 /\ sf.depthMap[B] = 1 /\ sf.depthMap[C] = 2

\* The walk over the working list: depthMap, discardedModules, pickedModules.
Walk ==
    WalkModules(sf.working, 1, ModuleDepsMap(tree), call.data.ignoreLibs,
                call.params.dependentOn, EmptyWalk)

\* C15 as stated: with dependentOn the final module set is the picked set,
\* without it the working list less the discarded set, and the discarded
\* set is what is reported as notBundledModules.
C15_Original ==
    call.made =>
        /\ call.params.dependentOn # None => Range(sf.modules) = Range(Walk.pickedModules)
        /\ call.params.dependentOn = None =>
              Range(sf.modules) = Range(sf.working) \ Range(Walk.discardedModules)
        /\ call.data.error = None => call.data.notBundledModules = Walk.discardedModules

\* C15 amended: with dependentOn the final module set is the picked set
\* less the discarded set (a picked module that also is on a path to an
\* excluded lib is dropped); without it the working list less the
\* discarded set; a resolution that succeeds reports exactly the discarded
\* set as notBundledModules.
C15_FinalModuleSet ==
    call.made =>
        LET walk == Walk
        IN /\ call.params.dependentOn # None =>
                 Range(sf.modules) = Range(walk.pickedModules) \ Range(walk.discardedModules)
           /\ call.params.dependentOn = None =>
                 Range(sf.modules) = Range(sf.working) \ Range(walk.discardedModules)
           /\ NoRepeat(sf.modules)
           /\ call.data.error = None => call.data.notBundledModules = walk.discardedModules

\* C15 witness: with dependentOn, a module is both picked and discarded,
\* and the final set keeps another picked module.
C15_Witness ==
    /\ call.made
    /\ call.params.dependentOn # None
    /\ call.data.error = None
    /\ Range(Walk.pickedModules) \cap Range(Walk.discardedModules) # {}
    /\ sf.modules # <<>>
    /\ call.data.notBundledModules # <<>>

\* C16: a chunk resolved without dependentOn, with success, is
\* self-contained: every dependency without a plugin prefix that a module
\* of its final set declares and that has a file in the lookup scope is in
\* the final set, and among the bundled modules, or is the module of a
\* file of the ignore list passed in.
C16_SelfContained ==
    (call.made /\ call.params.dependentOn = None /\ call.data.error = None) =>
        \A M \in Range(sf.modules) : \A D \in Range(Declared(M)) :
            (~IncludesBang(D) /\ HasFile(D)) =>
                \/ D \in Range(sf.modules) /\ D \in Range(call.data.modules)
                \/ D \in IgnoredModules

\* C16 witness: a is bundled; it requires b, the module of an ignored
\* file, that is left out, and c, that is bundled with it.
C16_Witness ==
    /\ call.made
    /\ call.params.dependentOn = None
    /\ call.data.error = None
    /\ call.params.targets = <<File("a")>>
    /\ tree[File("a")].deps = <<B, C>>
    /\ B \in IgnoredModules
    /\ call.data.modules = <<C, A>>

====
